---------------------------- MODULE Spec2Model ----------------------------
(***************************************************************************)
(* ECG viewer for the Arduino UNO Q: the wire-frame decoder                *)
(* (arduino_q_bridge_rpc.py), the streaming filter / R-peak detector /     *)
(* ring buffer (data_stream.py) and the polling web server (main.py).      *)
(*                                                                         *)
(* Numbers.  Python floats are modelled in fixed point: every amplitude of *)
(* the pipeline is an integer count of 1/Scale units, filter coefficients  *)
(* are integers over CoefScale.  Quotients the code stores (the smoother's *)
(* mean, the threshold, the sampling rate) are kept as exact fractions     *)
(* <<numerator, denominator>>; the comparisons of the detector are done on *)
(* cross-multiplied integers.  Timestamps are integer milliseconds, as the *)
(* decoder produces them.  An optional value is <<>> (None) or <<v>>.      *)
(***************************************************************************)
EXTENDS Integers, Sequences, FiniteSets

VARIABLES
    \* ---- wire decoder harness (SpecParse) ----
    wire,       \* the payload handed to parse_frame: [kind, data]
    origin,     \* how the payload was built: [how, count, t0, entries]
    res,        \* <<>> before the call, <<result>> after it
    \* ---- window tracker harness (SpecWin) ----
    pair,       \* [fast, slow]: two DataStreams fed the same samples
    \* ---- ECGWebServer (Spec), ring buffer harness (SpecRing) ----
    stream,     \* self.stream: the DataStream
    server,     \* the other fields of ECGWebServer
    lock,       \* self.lock: "free", or "poll" while the poll thread holds it
    poll,       \* the poll thread: its position and the locals of _poll_once
    outbox,     \* the messages the last step sent through ui.send_message
    reply,      \* what the last handler call built and returned
    ghost       \* history kept for the properties only

vars == <<wire, origin, res, pair, stream, server, lock, poll, outbox, reply,
          ghost>>
parseVars == <<wire, origin, res>>
serverVars == <<stream, server, lock, poll, outbox, reply, ghost>>

None == <<>>
Some(v) == <<v>>

(***************************************************************************)
(* arduino_q_bridge_rpc.py                                                 *)
(***************************************************************************)
CRC_POLY == 40961        \* 0xA001
MAX_SAMPLES == 255
OverflowMarker == 33     \* 0x21 '!'

\* bitwise exclusive or of two naturals (Python's ^)
Xor[a \in Nat, b \in Nat] ==
    IF a = 0 THEN b
    ELSE IF b = 0 THEN a
    ELSE (((a % 2) + (b % 2)) % 2) + 2 * Xor[a \div 2, b \div 2]

\* the inner loop of crc16_ibm: k more shifts of the register
CrcShift[crc \in Nat, k \in Nat] ==
    IF k = 0 THEN crc
    ELSE CrcShift[IF crc % 2 = 1 THEN Xor[crc \div 2, CRC_POLY] ELSE crc \div 2,
                  k - 1]

\* the outer loop of crc16_ibm over data[lo .. hi], starting from register c
\* (split in halves, so that the evaluation nests only log(n) deep)
crc16_ibm(data) ==
    LET fold[lo \in Nat, hi \in Nat, c \in Nat] ==
            IF lo > hi THEN c
            ELSE IF lo = hi THEN CrcShift[Xor[c, data[lo]], 8]
            ELSE fold[((lo + hi) \div 2) + 1, hi, fold[lo, (lo + hi) \div 2, c]]
    IN fold[1, Len(data), 0] % 65536

Digits == 48 .. 57
LowerHex == 97 .. 102
UpperHex == 65 .. 70
HexChars == Digits \cup LowerHex \cup UpperHex
\* str.strip() and bytes.fromhex() whitespace: space \t \n \v \f \r
Whitespace == {32} \cup (9 .. 13)

looks_like_hex(data) ==
    /\ Len(data) > 0
    /\ Len(data) % 2 = 0
    /\ \A i \in 1 .. Len(data) : data[i] \in HexChars

HexVal(c) ==
    IF c \in Digits THEN c - 48
    ELSE IF c \in LowerHex THEN c - 87
    ELSE c - 55

EmptyFrame == [samples |-> <<>>, timestamps |-> <<>>]

RECURSIVE FromHexAt(_, _, _)
\* bytes.fromhex: whitespace is skipped between byte pairs; anything else that
\* is not a pair of hex digits is a ValueError, modelled as None.
FromHexAt(text, i, acc) ==
    IF i > Len(text) THEN Some(acc)
    ELSE IF text[i] \in Whitespace THEN FromHexAt(text, i + 1, acc)
    ELSE IF /\ i + 1 <= Len(text)
            /\ text[i] \in HexChars
            /\ text[i + 1] \in HexChars
         THEN FromHexAt(text, i + 2,
                        Append(acc, 16 * HexVal(text[i]) + HexVal(text[i + 1])))
         ELSE None

fromhex(text) == FromHexAt(text, 1, <<>>)

RECURSIVE StripLeft(_)
StripLeft(text) ==
    IF Len(text) > 0 /\ text[1] \in Whitespace THEN StripLeft(Tail(text))
    ELSE text

RECURSIVE StripRight(_)
StripRight(text) ==
    IF Len(text) > 0 /\ text[Len(text)] \in Whitespace
    THEN StripRight(SubSeq(text, 1, Len(text) - 1))
    ELSE text

strip(text) == StripRight(StripLeft(text))

\* struct.unpack_from("<I", buf, offset) with offset the 0-based index
U32(buf, offset) ==
    buf[offset + 1] + 256 * buf[offset + 2] + 65536 * buf[offset + 3]
        + 16777216 * buf[offset + 4]

U16(buf, offset) == buf[offset + 1] + 256 * buf[offset + 2]

\* the for-loop of _parse_frame_bytes over `count` entries starting at the
\* 0-based offset 5: ts[i] is prev_t after the i-th entry
ParseEntries(buf, count, t0) ==
    LET ts[i \in 0 .. count] ==
            IF i = 0 THEN t0 ELSE ts[i - 1] + buf[5 + 3 * (i - 1) + 3]
    IN [samples |-> [i \in 1 .. count |-> U16(buf, 5 + 3 * (i - 1))],
        timestamps |-> [i \in 1 .. count |-> ts[i]]]

\* the buffer after the optional overflow marker is dropped
DropMarker(buf) ==
    IF Len(buf) > 1 /\ buf[1] = OverflowMarker THEN Tail(buf) ELSE buf

CrcNoCheck(buf) == TRUE
CrcMatches(buf) ==
    LET n == Len(buf)
        crc_recv == buf[n - 1] + 256 * buf[n]
        crc_calc == crc16_ibm(SubSeq(buf, 1, n - 2))
    IN crc_calc = crc_recv

parse_frame_bytes(buf0) ==
    IF Len(buf0) = 0 THEN EmptyFrame
    ELSE LET buf == DropMarker(buf0) IN
         IF Len(buf) < 1 + 2 + 2 THEN EmptyFrame
         ELSE LET count == buf[1] IN
              IF count = 0 \/ count > MAX_SAMPLES THEN EmptyFrame
              ELSE IF Len(buf) # 1 + 4 + count * 3 + 2 THEN EmptyFrame
              ELSE IF ~CrcMatches(buf) THEN EmptyFrame
              ELSE ParseEntries(buf, count, U32(buf, 1))

\* resp is [kind |-> "none"] | [kind |-> "bytes", data] | [kind |-> "str", data]
\* (data: the bytes, or the character codes of the text)
parse_frame(resp) ==
    IF resp.kind = "none" THEN EmptyFrame
    ELSE IF Len(resp.data) = 0 THEN EmptyFrame
    ELSE IF resp.kind = "bytes"
         THEN IF looks_like_hex(resp.data)
              THEN LET buf == fromhex(resp.data) IN
                   IF buf = None THEN EmptyFrame ELSE parse_frame_bytes(buf[1])
              ELSE parse_frame_bytes(resp.data)
         ELSE LET text == strip(resp.data) IN
              IF Len(text) = 0 THEN EmptyFrame
              ELSE LET buf == fromhex(text) IN
                   IF buf = None THEN EmptyFrame ELSE parse_frame_bytes(buf[1])

(***************************************************************************)
(* data_stream.py                                                          *)
(***************************************************************************)
\* Fixed-point resolution: an amplitude v is held as the integer v * Scale,
\* a filter coefficient c as the integer c * CoefScale (rounded).
Scale == 100
CoefScale == 1000

\* Sizes.  The program runs with fs = 200 Hz (window_size 40, inhibit_time
\* 10, max_window_size 400) and STREAM_LENGTH 4000, PLOT_WINDOW 800; the
\* model keeps their roles and order (inhibit_time < window_size <
\* max_window_size, PLOT_WINDOW < STREAM_LENGTH) at sizes a run can fill and
\* wrap.
window_size == 2
inhibit_time == 1
max_window_size == 3
STREAM_LENGTH == 3
PLOT_WINDOW == 2

RefractoryMs == 250

Abs(v) == IF v < 0 THEN -v ELSE v

\* ---- IIRFilter --------------------------------------------------------
\* coefficients (already normalised: every a[0] is 1) and initial state zi
hp_coef == [b |-> <<957, -1913, 957>>, a |-> <<1000, -1911, 915>>,
            zi |-> <<-96, 96>>]
no_coef == [b |-> <<974, 0, 974>>, a |-> <<1000, 0, 949>>, zi |-> <<3, 3>>]
tp_coef == [b |-> <<207, 413, 207>>, a |-> <<1000, -370, 196>>,
            zi |-> <<79, 1>>]

Mul(c, v) == (c * v) \div CoefScale

\* one pass of the loop body of IIRFilter.filter (order 2): <<yn, z'>>
IIRStep(f, z, xn) ==
    LET yn == Mul(f.b[1], xn) + z[1]
    IN <<yn, <<Mul(f.b[2], xn) + z[2] - Mul(f.a[2], yn),
               Mul(f.b[3], xn) - Mul(f.a[3], yn)>>>>

RECURSIVE IIRRun(_, _, _, _, _)
IIRRun(f, z, xs, i, ys) ==
    IF i > Len(xs) THEN [y |-> ys, state |-> z]
    ELSE LET r == IIRStep(f, z, xs[i])
         IN IIRRun(f, r[2], xs, i + 1, Append(ys, r[1]))

\* IIRFilter.filter(samples): [y |-> outputs, state |-> the new state]
IIRFilter_filter(f, z, xs) ==
    IF xs = <<>> THEN [y |-> <<>>, state |-> z] ELSE IIRRun(f, z, xs, 1, <<>>)

\* ---- DataStream -------------------------------------------------------
Zeros(n) == [i \in 1 .. n |-> 0]

\* DataStream.__init__
NewDataStream(length, adaptive_fast) ==
    [length |-> length,
     adaptive_fast |-> adaptive_fast,
     samples |-> [i \in 1 .. length |-> <<0, 1>>],
     timestamps |-> Zeros(length),
     write_idx |-> 0,
     filled |-> 0,
     hp_enabled |-> TRUE,
     no_enabled |-> TRUE,
     tp_enabled |-> TRUE,
     am_enabled |-> TRUE,
     hp_state |-> hp_coef.zi,
     no_state |-> no_coef.zi,
     tp_state |-> tp_coef.zi,
     buffer |-> Zeros(window_size),
     buffer_index |-> 0,
     sum_val |-> 0,
     filter_disable |-> FALSE,
     inhibit_counter |-> 0,
     max_window |-> <<>>,
     max_window_max |-> <<>>,
     max_window_min |-> <<>>,
     max_window_sum |-> 0,
     max_buffer |-> Zeros(max_window_size),
     max_index |-> 0,
     peak_polarity |-> 1,
     last_r_polarity |-> 1,
     last_r_peak_time |-> 0,
     prev_r_peak_time |-> 0,
     BPM |-> 0,
     newBPM |-> FALSE,
     dynamic_threshold |-> None,
     last_bpm |-> 0]

\* DataStream.set_filter_enabled(**flags): flags is a function from some of
\* the keys "hp", "no", "tp", "am" to booleans (an absent key is None)
set_filter_enabled(ds, flags) ==
    [ds EXCEPT
        !.hp_enabled = IF "hp" \in DOMAIN flags THEN flags["hp"] ELSE @,
        !.no_enabled = IF "no" \in DOMAIN flags THEN flags["no"] ELSE @,
        !.tp_enabled = IF "tp" \in DOMAIN flags THEN flags["tp"] ELSE @,
        !.am_enabled = IF "am" \in DOMAIN flags THEN flags["am"] ELSE @]

\* DataStream._append_sample
append_sample(ds, sample, timestamp) ==
    [ds EXCEPT
        !.samples[ds.write_idx + 1] = sample,
        !.timestamps[ds.write_idx + 1] = timestamp,
        !.write_idx = (ds.write_idx + 1) % ds.length,
        !.filled = IF ds.filled < ds.length THEN ds.filled + 1 ELSE ds.filled]

\* Python slice seq[lo:hi] with 0-based lo, hi
Slice(seq, lo, hi) == SubSeq(seq, lo + 1, hi)

\* DataStream.last(n) without the wraparound split at start = end
last_unsplit(ds, n0) ==
    IF n0 <= 0 \/ ds.filled = 0 THEN EmptyFrame
    ELSE LET n == IF n0 < ds.filled THEN n0 ELSE ds.filled
             start == (ds.write_idx - n) % ds.length
             end == ds.write_idx
         IN IF start <= end
            THEN [samples |-> Slice(ds.samples, start, end),
                  timestamps |-> Slice(ds.timestamps, start, end)]
            ELSE [samples |-> Slice(ds.samples, start, ds.length)
                                  \o Slice(ds.samples, 0, end),
                  timestamps |-> Slice(ds.timestamps, start, ds.length)
                                  \o Slice(ds.timestamps, 0, end)]

\* DataStream.last(n): [samples, timestamps]
last(ds, n0) ==
    IF n0 <= 0 \/ ds.filled = 0 THEN EmptyFrame
    ELSE LET n == IF n0 < ds.filled THEN n0 ELSE ds.filled
             start == (ds.write_idx - n) % ds.length
             end == ds.write_idx
         IN IF start < end
            THEN [samples |-> Slice(ds.samples, start, end),
                  timestamps |-> Slice(ds.timestamps, start, end)]
            ELSE [samples |-> Slice(ds.samples, start, ds.length)
                                  \o Slice(ds.samples, 0, end),
                  timestamps |-> Slice(ds.timestamps, start, ds.length)
                                  \o Slice(ds.timestamps, 0, end)]

RECURSIVE PopWhileLessOrEqual(_, _)
\* while q and q[-1] <= sample: q.pop()
PopWhileLessOrEqual(q, sample) ==
    IF Len(q) > 0 /\ q[Len(q)] <= sample
    THEN PopWhileLessOrEqual(SubSeq(q, 1, Len(q) - 1), sample)
    ELSE q

RECURSIVE PopWhileLess(_, _)
\* while q and q[-1] < sample: q.pop()
PopWhileLess(q, sample) ==
    IF Len(q) > 0 /\ q[Len(q)] < sample
    THEN PopWhileLess(SubSeq(q, 1, Len(q) - 1), sample)
    ELSE q

RECURSIVE PopWhileGreater(_, _)
\* while q and q[-1] > sample: q.pop()
PopWhileGreater(q, sample) ==
    IF Len(q) > 0 /\ q[Len(q)] > sample
    THEN PopWhileGreater(SubSeq(q, 1, Len(q) - 1), sample)
    ELSE q

\* DataStream._update_window_stats_fast
update_window_stats_fast(ds, sample) ==
    LET full == Len(ds.max_window) = max_window_size
        old == ds.max_window[1]
        win == IF full THEN Tail(ds.max_window) ELSE ds.max_window
        sum == IF full THEN ds.max_window_sum - old ELSE ds.max_window_sum
        mx == IF full /\ Len(ds.max_window_max) > 0 /\ old = ds.max_window_max[1]
              THEN Tail(ds.max_window_max) ELSE ds.max_window_max
        mn == IF full /\ Len(ds.max_window_min) > 0 /\ old = ds.max_window_min[1]
              THEN Tail(ds.max_window_min) ELSE ds.max_window_min
    IN [ds EXCEPT
           !.max_window = Append(win, sample),
           !.max_window_sum = sum + sample,
           !.max_window_max = Append(PopWhileLess(mx, sample), sample),
           !.max_window_min = Append(PopWhileGreater(mn, sample), sample)]

\* the brute-force branch of _process_adaptive_mean: the write into max_buffer
update_window_slow(ds, sample) ==
    [ds EXCEPT !.max_buffer[ds.max_index + 1] = sample,
               !.max_index = (ds.max_index + 1) % max_window_size]

RECURSIVE SeqSum(_, _)
SeqSum(seq, i) == IF i = 0 THEN 0 ELSE seq[i] + SeqSum(seq, i - 1)
SeqMax(seq) == CHOOSE v \in {seq[i] : i \in 1 .. Len(seq)} :
                   \A j \in 1 .. Len(seq) : seq[j] <= v
SeqMin(seq) == CHOOSE v \in {seq[i] : i \in 1 .. Len(seq)} :
                   \A j \in 1 .. Len(seq) : seq[j] >= v

\* the window update of _process_adaptive_mean, in the stream's mode
Tracked(ds, sample) ==
    IF ds.adaptive_fast THEN update_window_stats_fast(ds, sample)
    ELSE update_window_slow(ds, sample)

\* local_max, local_min and local_mean = sum / n as the code reads them after
\* the window update
LocalStats(ds) ==
    IF ds.adaptive_fast
    THEN [max |-> ds.max_window_max[1],
          min |-> ds.max_window_min[1],
          sum |-> ds.max_window_sum,
          n |-> Len(ds.max_window)]
    ELSE [max |-> SeqMax(ds.max_buffer),
          min |-> SeqMin(ds.max_buffer),
          sum |-> SeqSum(ds.max_buffer, Len(ds.max_buffer)),
          n |-> Len(ds.max_buffer)]

\* dist_max >= dist_min, i.e. max - sum/n >= sum/n - min
\* (compared exactly: where the two distances are equal as real numbers the
\* code's floats may round either way, which is not modelled)
PositivePolarity(st) == (st.max + st.min) * st.n >= 2 * st.sum

\* mean + 0.5 * dist_max = (sum + max*n) / (2n);
\* mean - 0.5 * dist_min = (sum + min*n) / (2n)
Threshold(st) ==
    IF PositivePolarity(st) THEN <<st.sum + st.max * st.n, 2 * st.n>>
    ELSE <<st.sum + st.min * st.n, 2 * st.n>>

\* is_r_candidate: sample > threshold (polarity +1), sample < threshold (-1)
IsRCandidate(st, sample) ==
    IF PositivePolarity(st)
    THEN sample * Threshold(st)[2] > Threshold(st)[1]
    ELSE sample * Threshold(st)[2] < Threshold(st)[1]

\* (timestamp - self.last_r_peak_time) > 250.0
NoRefractoryGap(timestamp, last_r_peak_time) == timestamp - last_r_peak_time > 0
ShortRefractory(timestamp, last_r_peak_time) == timestamp - last_r_peak_time > 4
OutsideRefractory(timestamp, last_r_peak_time) ==
    timestamp - last_r_peak_time > RefractoryMs

\* whether _process_adaptive_mean accepts (sample, timestamp) as a peak
PeakAccepted(ds, sample, timestamp) ==
    /\ IsRCandidate(LocalStats(Tracked(ds, sample)), sample)
    /\ OutsideRefractory(timestamp, ds.last_r_peak_time)

\* a BPM computed on every acceptance, the first one included
BpmOnEveryPeak(ds, sample, timestamp) == PeakAccepted(ds, sample, timestamp)

\* whether that acceptance also computes a BPM (raises newBPM)
RaisesBPM(ds, sample, timestamp) ==
    /\ PeakAccepted(ds, sample, timestamp)
    /\ ds.last_r_peak_time > 0
    /\ timestamp - ds.last_r_peak_time > 0

\* int(round(num / den)) for den > 0: Python rounds halves to even
RoundDiv(num, den) ==
    LET q == num \div den
        r == num % den
    IN IF 2 * r < den THEN q
       ELSE IF 2 * r > den THEN q + 1
       ELSE IF q % 2 = 0 THEN q ELSE q + 1

\* DataStream._process_adaptive_mean: [ds |-> the stream after, y |-> the
\* returned value as a fraction]
process_adaptive_mean(ds0, sample, timestamp) ==
    LET ds1 == Tracked(ds0, sample)
        st == LocalStats(ds1)
        ds2 == [ds1 EXCEPT
                   !.peak_polarity = IF PositivePolarity(st) THEN 1 ELSE -1,
                   !.dynamic_threshold = Some(Threshold(st))]
        accepted == PeakAccepted(ds0, sample, timestamp)
        bpm == RaisesBPM(ds0, sample, timestamp)
        ds3 == IF accepted
               THEN [ds2 EXCEPT
                        !.prev_r_peak_time = ds2.last_r_peak_time,
                        !.last_r_peak_time = timestamp,
                        !.BPM = IF bpm
                                THEN RoundDiv(60000, timestamp - ds2.last_r_peak_time)
                                ELSE @,
                        !.newBPM = IF bpm THEN TRUE ELSE @,
                        !.last_r_polarity = IF bpm THEN ds2.peak_polarity ELSE @,
                        !.filter_disable = TRUE,
                        !.inhibit_counter = inhibit_time]
               ELSE ds2
        ds4 == IF ds3.filter_disable /\ ds3.inhibit_counter > 0
               THEN [ds3 EXCEPT !.inhibit_counter = @ - 1]
               ELSE [ds3 EXCEPT !.filter_disable = FALSE]
        sum_val == ds4.sum_val - ds4.buffer[ds4.buffer_index + 1] + sample
    IN IF ds4.filter_disable
       THEN [ds |-> ds4, y |-> <<sample, 1>>]
       ELSE [ds |-> [ds4 EXCEPT
                        !.sum_val = sum_val,
                        !.buffer[ds4.buffer_index + 1] = sample,
                        !.buffer_index = (ds4.buffer_index + 1) % window_size],
             y |-> <<sum_val, window_size>>]

\* filtered = [0.0 if abs(val) < 0.001 else val for val in x]
DeadZone(x) == [i \in 1 .. Len(x) |-> IF Abs(x[i]) * 1000 < Scale THEN 0 ELSE x[i]]

\* the cascade with every stage run on its input, enabled or not, and the
\* output of a disabled stage discarded
FilterBatchAdvancing(ds, samples) ==
    LET x0 == [i \in 1 .. Len(samples) |-> samples[i] * Scale]
        f1 == IIRFilter_filter(no_coef, ds.no_state, x0)
        y1 == IF ds.no_enabled THEN f1.y ELSE x0
        f2 == IIRFilter_filter(tp_coef, ds.tp_state, y1)
        y2 == IF ds.tp_enabled THEN f2.y ELSE y1
        f3 == IIRFilter_filter(hp_coef, ds.hp_state, y2)
        y3 == IF ds.hp_enabled THEN f3.y ELSE y2
    IN [ds |-> [ds EXCEPT !.no_state = f1.state, !.tp_state = f2.state,
                          !.hp_state = f3.state],
        filtered |-> DeadZone(y3)]

\* the first half of add_samples: the float conversion, the cascade notch ->
\* lowpass -> highpass on the whole batch, the dead zone.
\* [ds |-> the stream with the new filter states, filtered |-> the batch]
FilterBatch(ds, samples) ==
    LET x0 == [i \in 1 .. Len(samples) |-> samples[i] * Scale]
        r1 == IF ds.no_enabled THEN IIRFilter_filter(no_coef, ds.no_state, x0)
              ELSE [y |-> x0, state |-> ds.no_state]
        r2 == IF ds.tp_enabled THEN IIRFilter_filter(tp_coef, ds.tp_state, r1.y)
              ELSE [y |-> r1.y, state |-> ds.tp_state]
        r3 == IF ds.hp_enabled THEN IIRFilter_filter(hp_coef, ds.hp_state, r2.y)
              ELSE [y |-> r2.y, state |-> ds.hp_state]
    IN [ds |-> [ds EXCEPT !.no_state = r1.state, !.tp_state = r2.state,
                          !.hp_state = r3.state],
        filtered |-> DeadZone(r3.y)]

\* the per-sample pass appending the filtered sample in place of the value
\* _process_adaptive_mean returns
ProcessSampleRaw(ds, s_val, t_val) ==
    IF ds.am_enabled
    THEN append_sample(process_adaptive_mean(ds, s_val, t_val).ds,
                       <<s_val, 1>>, t_val)
    ELSE append_sample(ds, <<s_val, 1>>, t_val)

\* the per-sample pass with the running sum of the smoother taking in the
\* samples of the refractory period too
ProcessSampleSumming(ds, s_val, t_val) ==
    IF ds.am_enabled
    THEN LET r == process_adaptive_mean(ds, s_val, t_val)
             after == IF r.ds.filter_disable
                      THEN [r.ds EXCEPT !.sum_val = @ + s_val] ELSE r.ds
         IN append_sample(after, r.y, t_val)
    ELSE append_sample(ds, <<s_val, 1>>, t_val)

\* one pass of the per-sample loop of add_samples
ProcessSample(ds, s_val, t_val) ==
    IF ds.am_enabled
    THEN LET r == process_adaptive_mean(ds, s_val, t_val)
         IN append_sample(r.ds, r.y, t_val)
    ELSE append_sample(ds, <<s_val, 1>>, t_val)

RECURSIVE ProcessFrom(_, _, _, _)
ProcessFrom(ds, filtered, t_arr, i) ==
    IF i > Len(filtered) \/ i > Len(t_arr) THEN ds
    ELSE ProcessFrom(ProcessSample(ds, filtered[i], t_arr[i]), filtered, t_arr, i + 1)

\* DataStream.add_samples
add_samples(ds, samples, timestamps) ==
    IF samples = <<>> THEN ds
    ELSE LET fb == FilterBatch(ds, samples)
         IN ProcessFrom(fb.ds, fb.filtered, timestamps, 1)

\* consume_new_bpm as a poll of a persistent value: the flag stays raised
consume_keeps_flag(ds) ==
    IF ds.newBPM
    THEN [ds |-> [ds EXCEPT !.last_bpm = ds.BPM],
          ret |-> Some(<<ds.BPM, ds.last_r_polarity>>)]
    ELSE [ds |-> ds, ret |-> None]

\* DataStream.consume_new_bpm: [ds |-> the stream after, ret |-> None or
\* <<(BPM, polarity)>>]
consume_new_bpm(ds) ==
    IF ds.newBPM
    THEN [ds |-> [ds EXCEPT !.newBPM = FALSE, !.last_bpm = ds.BPM],
          ret |-> Some(<<ds.BPM, ds.last_r_polarity>>)]
    ELSE [ds |-> ds, ret |-> None]

(***************************************************************************)
(* Wire payloads.  The sender (the MCU sketch, not part of this            *)
(* repository's Python sources) lays a frame out as the module docstring   *)
(* says: [uint8 count][uint32 t0_ms][count * (uint16 sample + uint8        *)
(* dt_ms)][uint16 crc16], all little-endian.                               *)
(***************************************************************************)
MaxCount == 2

LE16(v) == <<v % 256, (v \div 256) % 256>>
LE32(v) == <<v % 256, (v \div 256) % 256, (v \div 65536) % 256,
             (v \div 16777216) % 256>>

RECURSIVE EntryBytes(_, _)
EntryBytes(entries, i) ==
    IF i > Len(entries) THEN <<>>
    ELSE LE16(entries[i][1]) \o <<entries[i][2]>> \o EntryBytes(entries, i + 1)

WithCrc(body) == body \o LE16(crc16_ibm(body))

\* a frame whose count byte is `count` and whose entry list is `entries`
\* (well-formed when count = Len(entries) and 1 <= count <= 255)
WireFrame(count, t0, entries) ==
    WithCrc(<<count>> \o LE32(t0) \o EntryBytes(entries, 1))

HexDigit(n) == IF n < 10 THEN 48 + n ELSE 87 + n
RECURSIVE HexText(_, _)
\* bytes.hex(): the lower-case hex text of the bytes, as character codes
HexText(bytes, i) ==
    IF i > Len(bytes) THEN <<>>
    ELSE <<HexDigit(bytes[i] \div 16), HexDigit(bytes[i] % 16)>>
             \o HexText(bytes, i + 1)

T0Values == {0, 70000}
Entries == {<<100, 5>>, <<300, 255>>}

Cycle(pattern, n) == [i \in 1 .. n |-> pattern[((i - 1) % Len(pattern)) + 1]]

\* the entry lists of the frames fed to the decoder: every list of up to
\* MaxCount entries, and one-entry patterns repeated for the long frame whose
\* count byte equals the overflow marker
EntryLists ==
    UNION {[1 .. n -> Entries] : n \in 1 .. MaxCount}
        \cup {Cycle(<<e>>, OverflowMarker) : e \in Entries}

Hows == {"raw", "marker", "hexbytes", "text", "badcrc", "short", "long",
         "zerocount", "none", "empty", "junk"}

Build(how, t0, entries) ==
    LET n == Len(entries)
        good == WireFrame(n, t0, entries)
    IN CASE how = "raw" -> [kind |-> "bytes", data |-> good]
         [] how = "marker" -> [kind |-> "bytes", data |-> <<OverflowMarker>> \o good]
         [] how = "hexbytes" -> [kind |-> "bytes", data |-> HexText(good, 1)]
         [] how = "text" -> [kind |-> "str", data |-> <<32>> \o HexText(good, 1) \o <<10>>]
         [] how = "badcrc" ->
                [kind |-> "bytes",
                 data |-> [good EXCEPT ![Len(good)] = (good[Len(good)] + 1) % 256]]
         [] how = "short" ->
                [kind |-> "bytes",
                 data |-> WireFrame(n + 1, t0, entries)]
         [] how = "long" ->
                [kind |-> "bytes",
                 data |-> WireFrame(n, t0, entries \o <<entries[1]>>)]
         [] how = "zerocount" ->
                [kind |-> "bytes", data |-> WireFrame(0, t0, <<>>)]
         [] how = "none" -> [kind |-> "none", data |-> <<>>]
         [] how = "empty" -> [kind |-> "bytes", data |-> <<>>]
         [] OTHER -> [kind |-> "str", data |-> <<120, 121>> \o HexText(good, 1)]

FlipBit(byte, b) ==
    IF (byte \div (2 ^ b)) % 2 = 1 THEN byte - 2 ^ b ELSE byte + 2 ^ b

InitParse ==
    /\ \E how \in Hows, t0 \in T0Values, entries \in EntryLists :
          /\ Len(entries) <= MaxCount \/ how \in {"raw", "marker"}
          /\ origin = [how |-> how, t0 |-> t0, entries |-> entries,
                       flip |-> <<>>, before |-> EmptyFrame]
          /\ wire = Build(how, t0, entries)
    /\ res = None
    /\ pair = None
    /\ stream = None /\ server = None /\ lock = "free" /\ poll = None
    /\ outbox = None /\ reply = None /\ ghost = None

\* parse_frame(resp)
Parse ==
    /\ res = None
    /\ res' = Some(parse_frame(wire))
    /\ UNCHANGED <<wire, origin, pair>>
    /\ UNCHANGED serverVars

\* one bit of an accepted byte payload is flipped in transit and the payload
\* is decoded again
Corrupt ==
    /\ res # None
    /\ res[1] # EmptyFrame
    /\ origin.flip = <<>>
    /\ wire.kind = "bytes"
    /\ \E i \in 1 .. Len(wire.data), b \in 0 .. 7 :
          /\ wire' = [wire EXCEPT !.data[i] = FlipBit(@, b)]
          /\ origin' = [origin EXCEPT !.flip = <<i, b>>, !.before = res[1]]
    /\ res' = None
    /\ UNCHANGED pair
    /\ UNCHANGED serverVars

NextParse == Parse \/ Corrupt

SpecParse == InitParse /\ [][NextParse]_vars


(***************************************************************************)
(* main.py: ECGWebServer                                                   *)
(***************************************************************************)
ADAPTIVE_MEAN_FAST == TRUE

\* ---- what the transport hands to the poll thread -----------------------
MaxBatch == 2       \* entries per polled frame
MaxSamples == 4     \* samples polled in one run
MaxClears == 1      \* clear_buffer calls in one run
MaxToggles == 1     \* set_filters calls in one run
MaxFails == 1       \* poll ticks without samples in one run
MaxStreamSamples == 4   \* samples polled in one run of SpecStream

PollT0 == {0, 600}
PollEntries == {<<0, 255>>, <<100, 5>>, <<100, 255>>, <<300, 255>>}
PollEntryLists == UNION {[1 .. n -> PollEntries] : n \in 1 .. MaxBatch}

\* responses of Bridge.call("ecg_get_frame") that decode to samples ...
GoodResponses ==
    {[kind |-> "bytes", data |-> WireFrame(Len(e), t0, e)] :
        t0 \in PollT0, e \in PollEntryLists}
\* ... and responses that do not: None, and a frame with a damaged CRC
BadResponses ==
    {Build("none", 0, <<<<0, 5>>>>), Build("badcrc", 0, <<<<100, 5>>>>)}

\* ArduinoQRpcClient.request_frame on each response
PollFrames == {parse_frame(r) : r \in GoodResponses}
\* the frames polled while the handlers run too: slow sampling only
ServerEntries == {<<0, 255>>, <<100, 255>>}
ServerEntryLists == UNION {[1 .. n -> ServerEntries] : n \in 1 .. MaxBatch}
ServerFrames ==
    {parse_frame([kind |-> "bytes", data |-> WireFrame(Len(e), t0, e)]) :
        t0 \in PollT0, e \in ServerEntryLists}
RejectedFrames == {parse_frame(r) : r \in BadResponses}

FilterKeys == {"hp", "no", "tp", "am"}
\* the payloads of the set_filters message
FilterPayloads ==
    {[k \in {"am"} |-> FALSE],
     [k \in {"hp", "no", "tp"} |-> FALSE]}

\* ---- helpers of ECGWebServer --------------------------------------------
\* _build_delta_payload without the clamp of dt into 0..255
build_delta_unclamped(samples, timestamps, threshold) ==
    LET count == Len(samples)
    IN IF count = 0 THEN None
       ELSE Some([t0 |-> timestamps[1],
                  dt |-> [i \in 1 .. count |->
                             IF i = 1 THEN 0
                             ELSE timestamps[i] - timestamps[i - 1]],
                  y |-> samples,
                  threshold |-> threshold])

\* ECGWebServer._build_delta_payload: None or <<payload>>
build_delta_payload(samples, timestamps, threshold) ==
    LET count == Len(samples)
        t0 == timestamps[1]
        dt(i) == LET d == timestamps[i] - timestamps[i - 1]
                 IN IF d < 0 THEN 0 ELSE IF d > 255 THEN 255 ELSE d
    IN IF count = 0 THEN None
       ELSE Some([t0 |-> t0,
                  dt |-> [i \in 1 .. count |-> IF i = 1 THEN 0 ELSE dt(i)],
                  y |-> samples,
                  threshold |-> threshold])

\* ECGWebServer._build_full_payload: [payload |-> None or <<payload>>,
\* t0 |-> self.t0 afterwards]
build_full_payload(ds, t0) ==
    LET w == last(ds, PLOT_WINDOW)
        t0_set == IF t0 = None /\ w.timestamps # <<>>
                  THEN Some(w.timestamps[1]) ELSE t0
        base == IF t0_set = None THEN 0 ELSE t0_set[1]
    IN IF w.samples = <<>> THEN [payload |-> None, t0 |-> t0]
       ELSE [payload |->
                 Some([plot_window |-> PLOT_WINDOW,
                       t0 |-> base,
                       t |-> [i \in 1 .. Len(w.timestamps) |->
                                 w.timestamps[i] - base],
                       y |-> w.samples,
                       threshold |-> ds.dynamic_threshold]),
             t0 |-> t0_set]

\* `with self.lock:` entered by a thread that does not hold the lock
NoLock(owner) == TRUE
Acquirable(owner) == owner = "free"

\* the DataStream that _handle_clear_buffer installs
RingOnlyCleared(ds) ==
    [ds EXCEPT !.samples = [i \in 1 .. ds.length |-> <<0, 1>>],
               !.timestamps = Zeros(ds.length),
               !.write_idx = 0,
               !.filled = 0]
ClearedStream(ds) == NewDataStream(STREAM_LENGTH, ADAPTIVE_MEAN_FAST)

\* ECGWebServer.__init__
NewServer ==
    [client |-> FALSE,
     status |-> "Not connected",
     t0 |-> None,
     last_count |-> 0,
     last_bpm |-> None,
     last_polarity |-> None,
     last_sampling_rate |-> None,
     filters |-> [k \in FilterKeys |-> TRUE],
     last_payload |-> None,
     last_meta |-> None]

IdlePoll ==
    [pc |-> "idle", samples |-> <<>>, timestamps |-> <<>>, filtered |-> <<>>,
     i |-> 0, meta |-> None, delta |-> None]

NewGhost ==
    [total |-> 0,       \* samples polled so far
     fails |-> 0,       \* poll ticks that ended without samples
     clears |-> 0,      \* clear_buffer calls so far
     toggles |-> 0,     \* set_filters calls so far
     hist |-> <<>>,     \* the (value, timestamp) pairs appended to self.stream
     done |-> 0,        \* how many of them belong to finished batches
     last_len |-> 0,    \* the size of the last finished batch
     thr_done |-> None, \* the threshold when the last batch finished
     peaks |-> <<>>,    \* the timestamps of the peaks self.stream accepted
     n_det |-> 0,       \* acceptances that computed a BPM
     n_cons |-> 0]      \* consume_new_bpm calls that returned a pair

Init ==
    /\ wire = None /\ origin = None /\ res = None /\ pair = None
    /\ stream = NewDataStream(STREAM_LENGTH, ADAPTIVE_MEAN_FAST)
    /\ server = NewServer
    /\ lock = "free"
    /\ poll = IdlePoll
    /\ outbox = None
    /\ reply = None
    /\ ghost = NewGhost

Silent == outbox' = None /\ reply' = None

\* ---- _poll_once, lines 79-95: outside the lock --------------------------
\* self.status = f"RPC error: {exc}" in the two except branches
RpcErrorForgets(srv) ==
    [srv EXCEPT !.status = "RPC error", !.t0 = None, !.last_meta = None]
RpcError(srv) == [srv EXCEPT !.status = "RPC error"]

\* open_rpc() raises
PollOpenFails ==
    /\ poll.pc = "idle"
    /\ ghost.fails < MaxFails
    /\ ~server.client
    /\ server' = RpcError(server)
    /\ poll' = IdlePoll
    /\ ghost' = [ghost EXCEPT !.fails = @ + 1]
    /\ Silent
    /\ UNCHANGED <<stream, lock>>

\* the status after the client is there (opened now if it was None)
Opened(srv) ==
    IF srv.client THEN srv
    ELSE [srv EXCEPT !.client = TRUE, !.status = "Connected (Bridge RPC)"]

\* request_frame() raises
PollRequestRaises ==
    /\ poll.pc = "idle"
    /\ ghost.fails < MaxFails
    /\ server' = [RpcError(Opened(server)) EXCEPT !.client = FALSE]
    /\ poll' = IdlePoll
    /\ ghost' = [ghost EXCEPT !.fails = @ + 1]
    /\ Silent
    /\ UNCHANGED <<stream, lock>>

\* request_frame() returns no samples: the response was None or was rejected
\* by the decoder
PollNoSamples ==
    /\ poll.pc = "idle"
    /\ ghost.fails < MaxFails
    /\ \E f \in RejectedFrames : f.samples = <<>>
    /\ server' = Opened(server)
    /\ poll' = IdlePoll
    /\ ghost' = [ghost EXCEPT !.fails = @ + 1]
    /\ Silent
    /\ UNCHANGED <<stream, lock>>

\* request_frame() returns a decoded frame, one of `frames`
GotFrame(frames, budget) ==
    /\ poll.pc = "idle"
    /\ \E f \in frames :
          /\ f.samples # <<>>
          /\ ghost.total + Len(f.samples) <= budget
          /\ poll' = [IdlePoll EXCEPT !.pc = "got", !.samples = f.samples,
                                      !.timestamps = f.timestamps]
          /\ ghost' = [ghost EXCEPT !.total = @ + Len(f.samples)]
    /\ server' = Opened(server)
    /\ Silent
    /\ UNCHANGED <<stream, lock>>

PollGotFrame == GotFrame(ServerFrames, MaxSamples)
StreamGotFrame == GotFrame(PollFrames, MaxStreamSamples)

\* ---- _poll_once, lines 97-129: under the lock ----------------------------
\* lines 97-102 up to the filter cascade of add_samples
PollLock ==
    /\ poll.pc = "got"
    /\ Acquirable(lock)
    /\ lock' = "poll"
    /\ server' = [server EXCEPT
                     !.t0 = IF @ = None /\ poll.timestamps # <<>>
                            THEN Some(poll.timestamps[1]) ELSE @]
    /\ LET fb == FilterBatch(set_filter_enabled(stream, server.filters),
                             poll.samples)
       IN /\ stream' = fb.ds
          /\ poll' = [poll EXCEPT !.pc = "loop", !.filtered = fb.filtered,
                                  !.i = 1]
    /\ UNCHANGED ghost
    /\ Silent

\* one pass of the per-sample loop of add_samples
PollSample ==
    /\ poll.pc = "loop"
    /\ poll.i <= Len(poll.filtered)
    /\ poll.i <= Len(poll.timestamps)
    /\ LET s_val == poll.filtered[poll.i]
           t_val == poll.timestamps[poll.i]
           accepted == stream.am_enabled /\ PeakAccepted(stream, s_val, t_val)
           bpm == stream.am_enabled /\ RaisesBPM(stream, s_val, t_val)
       IN /\ stream' = ProcessSample(stream, s_val, t_val)
          /\ ghost' = [ghost EXCEPT
                          !.hist = Append(@, <<stream'.samples[stream.write_idx + 1],
                                               t_val>>),
                          !.peaks = IF accepted THEN Append(@, t_val) ELSE @,
                          !.n_det = IF bpm THEN @ + 1 ELSE @]
    /\ poll' = [poll EXCEPT !.i = @ + 1]
    /\ Silent
    /\ UNCHANGED <<server, lock>>

\* lines 103-129: the rest of the critical section
PollFinish ==
    /\ poll.pc = "loop"
    /\ poll.i > Len(poll.filtered) \/ poll.i > Len(poll.timestamps)
    /\ LET n == Len(poll.samples)
           c == consume_new_bpm(stream)
           span_ms == poll.timestamps[n] - poll.timestamps[1]
           srv == [server EXCEPT
                      !.last_count = n,
                      !.last_bpm = IF c.ret # None THEN Some(c.ret[1][1]) ELSE @,
                      !.last_polarity = IF c.ret # None THEN Some(c.ret[1][2]) ELSE @,
                      !.last_sampling_rate =
                          IF n >= 2 /\ span_ms > 0
                          THEN Some(<<(n - 1) * 1000, span_ms>>) ELSE @]
           meta == [status |-> srv.status,
                    last_count |-> srv.last_count,
                    bpm |-> srv.last_bpm,
                    polarity |-> srv.last_polarity,
                    sampling_rate_hz |-> srv.last_sampling_rate]
           w == last(c.ds, srv.last_count)
           delta == build_delta_payload(w.samples, w.timestamps,
                                        c.ds.dynamic_threshold)
       IN /\ stream' = c.ds
          /\ IF delta = None
             THEN /\ server' = srv
                  /\ poll' = IdlePoll
             ELSE /\ server' = [srv EXCEPT !.last_meta = Some(meta)]
                  /\ poll' = [poll EXCEPT !.pc = "emit", !.meta = Some(meta),
                                          !.delta = delta]
          /\ ghost' = [ghost EXCEPT
                          !.done = Len(ghost.hist),
                          !.last_len = n,
                          !.thr_done = c.ds.dynamic_threshold,
                          !.n_cons = IF c.ret # None THEN @ + 1 ELSE @]
    /\ lock' = "free"
    /\ Silent

\* lines 131-133: the two messages, sent after the lock is released.  The
\* meta dictionary holds a reference to self.filters, read when it is sent.
PollEmit ==
    /\ poll.pc = "emit"
    /\ outbox' = Some(<<[type |-> "ecg_meta", data |-> poll.meta[1],
                         filters |-> server.filters],
                        [type |-> "ecg_delta", data |-> poll.delta[1]]>>)
    /\ reply' = None
    /\ poll' = IdlePoll
    /\ UNCHANGED <<stream, server, lock, ghost>>

\* ---- the Socket.IO handlers ----------------------------------------------
\* ECGWebServer._on_connect
OnConnect ==
    /\ Acquirable(lock)
    /\ LET meta == server.last_meta
           full == build_full_payload(stream, server.t0)
       IN /\ server' = [server EXCEPT !.t0 = full.t0]
          /\ reply' = Some([kind |-> "connect", meta |-> meta,
                            payload |-> full.payload])
          /\ outbox' = Some((IF meta # None
                             THEN <<[type |-> "ecg_meta", data |-> meta[1],
                                     filters |-> server.filters]>>
                             ELSE <<>>)
                            \o (IF full.payload # None
                                THEN <<[type |-> "ecg_frame",
                                        data |-> full.payload[1]]>>
                                ELSE <<>>))
    /\ UNCHANGED <<stream, lock, poll, ghost>>

\* ECGWebServer._handle_request_status
HandleRequestStatus ==
    /\ Acquirable(lock)
    /\ LET full == build_full_payload(stream, server.t0)
       IN /\ server' = [server EXCEPT !.t0 = full.t0]
          /\ reply' = Some([kind |-> "request_status", meta |-> None,
                            payload |-> full.payload])
    /\ outbox' = None
    /\ UNCHANGED <<stream, lock, poll, ghost>>

\* ECGWebServer._handle_set_filters
HandleSetFilters ==
    /\ Acquirable(lock)
    /\ ghost.toggles < MaxToggles
    /\ \E payload \in FilterPayloads :
          server' = [server EXCEPT
                        !.filters = [k \in FilterKeys |->
                                        IF k \in DOMAIN payload THEN payload[k]
                                        ELSE server.filters[k]]]
    /\ reply' = Some([kind |-> "set_filters", meta |-> None, payload |-> None])
    /\ outbox' = None
    /\ ghost' = [ghost EXCEPT !.toggles = @ + 1]
    /\ UNCHANGED <<stream, lock, poll>>

\* ECGWebServer._handle_clear_buffer
HandleClearBuffer ==
    /\ Acquirable(lock)
    /\ ghost.clears < MaxClears
    /\ stream' = ClearedStream(stream)
    /\ server' = [server EXCEPT !.t0 = None, !.last_payload = None,
                                !.last_meta = None]
    /\ reply' = Some([kind |-> "clear_buffer", meta |-> None, payload |-> None])
    /\ outbox' = None
    /\ ghost' = [ghost EXCEPT
                    !.clears = @ + 1, !.hist = <<>>, !.done = 0,
                    !.last_len = 0, !.thr_done = None, !.peaks = <<>>]
    /\ UNCHANGED <<lock, poll>>

Next ==
    \/ (PollOpenFails /\ UNCHANGED <<parseVars, pair>>)
    \/ (PollRequestRaises /\ UNCHANGED <<parseVars, pair>>)
    \/ (PollNoSamples /\ UNCHANGED <<parseVars, pair>>)
    \/ (PollGotFrame /\ UNCHANGED <<parseVars, pair>>)
    \/ (PollLock /\ UNCHANGED <<parseVars, pair>>)
    \/ (PollSample /\ UNCHANGED <<parseVars, pair>>)
    \/ (PollFinish /\ UNCHANGED <<parseVars, pair>>)
    \/ (PollEmit /\ UNCHANGED <<parseVars, pair>>)
    \/ (OnConnect /\ UNCHANGED <<parseVars, pair>>)
    \/ (HandleRequestStatus /\ UNCHANGED <<parseVars, pair>>)
    \/ (HandleSetFilters /\ UNCHANGED <<parseVars, pair>>)
    \/ (HandleClearBuffer /\ UNCHANGED <<parseVars, pair>>)

Spec == Init /\ [][Next]_vars

\* the poll thread alone, on frames whose timestamps are any integers (what
\* the signature of request_frame allows; inside a frame the decoder gives
\* only steps of 0..255 ms)
MaxDeltaSamples == 3
DeltaFrames ==
    {[samples |-> <<v>>, timestamps |-> <<t>>] :
        v \in {0, 100}, t \in {300, 1000}}
    \cup {[samples |-> <<v, 100>>, timestamps |-> <<t, u>>] :
             v \in {0, 300}, t \in {300, 600}, u \in {0, 300, 400, 600, 1000}}
DeltaGotFrame == GotFrame(DeltaFrames, MaxDeltaSamples)

NextDelta ==
    \/ (DeltaGotFrame /\ UNCHANGED <<parseVars, pair>>)
    \/ (PollLock /\ UNCHANGED <<parseVars, pair>>)
    \/ (PollSample /\ UNCHANGED <<parseVars, pair>>)
    \/ (PollFinish /\ UNCHANGED <<parseVars, pair>>)
    \/ (PollEmit /\ UNCHANGED <<parseVars, pair>>)

SpecDelta == Init /\ [][NextDelta]_vars

\* the poll thread alone, on the richer set of frames
NextStream ==
    \/ (StreamGotFrame /\ UNCHANGED <<parseVars, pair>>)
    \/ (PollLock /\ UNCHANGED <<parseVars, pair>>)
    \/ (PollSample /\ UNCHANGED <<parseVars, pair>>)
    \/ (PollFinish /\ UNCHANGED <<parseVars, pair>>)
    \/ (PollEmit /\ UNCHANGED <<parseVars, pair>>)

SpecStream == Init /\ [][NextStream]_vars

(***************************************************************************)
(* Two DataStreams side by side, one per tracker mode, fed the same        *)
(* samples through add_samples one sample at a time.                       *)
(***************************************************************************)
MaxWinSteps == 5
WinValues == {0, 5, 100, 300}
WinGaps == {5, 255}

InitWin ==
    /\ wire = None /\ origin = None /\ res = None
    /\ pair = [fast |-> NewDataStream(STREAM_LENGTH, TRUE),
               slow |-> NewDataStream(STREAM_LENGTH, FALSE),
               fed |-> <<>>,
               now |-> 0]
    /\ stream = None /\ server = None /\ lock = "free" /\ poll = None
    /\ outbox = None /\ reply = None /\ ghost = None

WinFeed ==
    /\ Len(pair.fed) < MaxWinSteps
    /\ \E v \in WinValues, g \in WinGaps :
          pair' = [fast |-> add_samples(pair.fast, <<v>>, <<pair.now + g>>),
                   slow |-> add_samples(pair.slow, <<v>>, <<pair.now + g>>),
                   fed |-> Append(pair.fed, v),
                   now |-> pair.now + g]
    /\ UNCHANGED <<parseVars, serverVars>>

NextWin == WinFeed

SpecWin == InitWin /\ [][NextWin]_vars

(***************************************************************************)
(* The ring buffer alone: _append_sample calls on a fresh DataStream.      *)
(***************************************************************************)
MaxAppends == 7
RingValues == {<<1, 1>>, <<2, 1>>}

InitRing ==
    /\ wire = None /\ origin = None /\ res = None /\ pair = None
    /\ stream = NewDataStream(STREAM_LENGTH, ADAPTIVE_MEAN_FAST)
    /\ server = None /\ lock = "free" /\ poll = None
    /\ outbox = None /\ reply = None
    /\ ghost = [hist |-> <<>>]

\* the timestamp is the call's sequence number
RingAppend ==
    /\ Len(ghost.hist) < MaxAppends
    /\ \E v \in RingValues :
          /\ stream' = append_sample(stream, v, Len(ghost.hist) + 1)
          /\ ghost' = [hist |-> Append(ghost.hist, <<v, Len(ghost.hist) + 1>>)]
    /\ UNCHANGED <<parseVars, pair, server, lock, poll, outbox, reply>>

NextRing == RingAppend

SpecRing == InitRing /\ [][NextRing]_vars


(***************************************************************************)
(* The DataStream configuration interface: set_filter_enabled and          *)
(* add_samples calls on one stream, in any order.                          *)
(***************************************************************************)
MaxToggleSteps == 4
ToggleBatches ==
    {[samples |-> <<100>>, timestamps |-> <<300>>],
     [samples |-> <<0, 300>>, timestamps |-> <<300, 600>>]}
\* keyword arguments of set_filter_enabled: the keys given, with their values
ToggleFlags ==
    UNION {[K -> BOOLEAN] :
              K \in {{}, {"hp"}, {"no"}, {"tp"}, {"am"}, {"hp", "no", "tp"}}}

InitToggle ==
    /\ wire = None /\ origin = None /\ res = None /\ pair = None
    /\ stream = NewDataStream(STREAM_LENGTH, ADAPTIVE_MEAN_FAST)
    /\ server = None /\ lock = "free" /\ poll = None
    /\ outbox = None /\ reply = None
    /\ ghost = [op |-> "init", steps |-> 0, flags |-> <<>>,
                samples |-> <<>>, timestamps |-> <<>>]

ToggleSet ==
    /\ ghost.steps < MaxToggleSteps
    /\ \E flags \in ToggleFlags :
          /\ stream' = set_filter_enabled(stream, flags)
          /\ ghost' = [op |-> "set", steps |-> ghost.steps + 1, flags |-> flags,
                       samples |-> <<>>, timestamps |-> <<>>]
    /\ UNCHANGED <<parseVars, pair, server, lock, poll, outbox, reply>>

ToggleAdd ==
    /\ ghost.steps < MaxToggleSteps
    /\ \E b \in ToggleBatches :
          /\ stream' = add_samples(stream, b.samples, b.timestamps)
          /\ ghost' = [op |-> "add", steps |-> ghost.steps + 1, flags |-> <<>>,
                       samples |-> b.samples, timestamps |-> b.timestamps]
    /\ UNCHANGED <<parseVars, pair, server, lock, poll, outbox, reply>>

NextToggle == ToggleSet \/ ToggleAdd

SpecToggle == InitToggle /\ [][NextToggle]_vars

(***************************************************************************)
(* The BPM event interface: add_samples (one sample a call, time moving    *)
(* forward) and consume_new_bpm calls on one stream, in any order.         *)
(***************************************************************************)
MaxBpmSteps == 6
BpmValues == {0, 300}
BpmGaps == {5, 255}

InitBpm ==
    /\ wire = None /\ origin = None /\ res = None /\ pair = None
    /\ stream = NewDataStream(STREAM_LENGTH, ADAPTIVE_MEAN_FAST)
    /\ server = None /\ lock = "free" /\ poll = None
    /\ outbox = None /\ reply = None
    /\ ghost = [op |-> "init", steps |-> 0, now |-> 0,
                pend |-> None,   \* the polarity at the last BPM-producing
                                 \* acceptance since the last consume call
                ret |-> None]    \* what the last consume call returned

\* an acceptance moves last_r_peak_time; it computes a BPM when there was a
\* peak before it
BpmAdd ==
    /\ ghost.steps < MaxBpmSteps
    /\ \E v \in BpmValues, g \in BpmGaps :
          /\ stream' = add_samples(stream, <<v>>, <<ghost.now + g>>)
          /\ ghost' = [ghost EXCEPT
                          !.op = "add", !.steps = @ + 1, !.now = @ + g,
                          !.pend = IF /\ stream'.last_r_peak_time # stream.last_r_peak_time
                                      /\ stream.last_r_peak_time > 0
                                   THEN Some(stream'.peak_polarity)
                                   ELSE @]
    /\ UNCHANGED <<parseVars, pair, server, lock, poll, outbox, reply>>

BpmConsume ==
    /\ ghost.steps < MaxBpmSteps
    /\ LET c == consume_new_bpm(stream)
       IN /\ stream' = c.ds
          /\ ghost' = [ghost EXCEPT !.op = "consume", !.steps = @ + 1,
                                    !.pend = None, !.ret = c.ret]
    /\ UNCHANGED <<parseVars, pair, server, lock, poll, outbox, reply>>

NextBpm == BpmAdd \/ BpmConsume

SpecBpm == InitBpm /\ [][NextBpm]_vars

(***************************************************************************)
(* The fast window tracker alone: _update_window_stats_fast calls on a     *)
(* fresh DataStream.                                                       *)
(***************************************************************************)
MaxTrackSteps == 7
TrackValues == {0, 500, 10000}

InitTrack ==
    /\ wire = None /\ origin = None /\ res = None /\ pair = None
    /\ stream = NewDataStream(STREAM_LENGTH, TRUE)
    /\ server = None /\ lock = "free" /\ poll = None
    /\ outbox = None /\ reply = None
    /\ ghost = [seen |-> <<>>]

TrackInsert ==
    /\ Len(ghost.seen) < MaxTrackSteps
    /\ \E v \in TrackValues :
          /\ stream' = update_window_stats_fast(stream, v)
          /\ ghost' = [seen |-> Append(ghost.seen, v)]
    /\ UNCHANGED <<parseVars, pair, server, lock, poll, outbox, reply>>

NextTrack == TrackInsert

SpecTrack == InitTrack /\ [][NextTrack]_vars

(***************************************************************************)
(* Decoder claims (checked under SpecParse)                                *)
(***************************************************************************)
\* what the frame format asks of a buffer: a count in 1..255, the byte length
\* 1 + 4 + 3*count + 2 for that count, and the trailing little-endian CRC
FrameOk(buf) ==
    /\ Len(buf) >= 1
    /\ buf[1] \in 1 .. 255
    /\ Len(buf) = 1 + 4 + 3 * buf[1] + 2
    /\ crc16_ibm(SubSeq(buf, 1, Len(buf) - 2))
           = buf[Len(buf) - 1] + 256 * buf[Len(buf)]

\* the frame bytes a payload stands for: hex text is hex-decoded, then one
\* leading overflow marker followed by more bytes is dropped; None when the
\* payload holds no bytes at all
FrameBytesOf(resp) ==
    LET raw == IF resp.kind = "none" THEN None
               ELSE IF resp.kind = "bytes" /\ ~looks_like_hex(resp.data)
                    THEN Some(resp.data)
               ELSE fromhex(IF resp.kind = "str" THEN strip(resp.data)
                            ELSE resp.data)
    IN IF raw = None THEN None ELSE Some(DropMarker(raw[1]))

\* C5 (as amended): decoding is all-or-nothing.  The result is either empty
\* or two sequences of equal length exactly count, and it is empty whenever
\* count is 0, the byte length differs from 1 + 4 + 3*count + 2, or the CRC
\* differs, where count, length and CRC are those of the frame bytes left
\* after hex-decoding and after dropping one leading 0x21 overflow marker.
C5_AllOrNothing ==
    res # None =>
        LET r == res[1]
            fb == FrameBytesOf(wire)
        IN /\ Len(r.samples) = Len(r.timestamps)
           /\ r # EmptyFrame => /\ fb # None
                                /\ Len(fb[1]) >= 1
                                /\ Len(r.samples) = fb[1][1]
           /\ (fb = None \/ ~FrameOk(fb[1])) => r = EmptyFrame

C5_Witness ==
    /\ res # None
    /\ origin.how = "badcrc"
    /\ ~FrameOk(wire.data)
    /\ res[1] = EmptyFrame

\* C5 as stated: count and byte length are read off the byte payload itself.
C5_AsStated ==
    (res # None /\ wire.kind = "bytes" /\ ~FrameOk(wire.data))
        => res[1] = EmptyFrame

RECURSIVE SumDt(_, _)
SumDt(entries, i) == IF i = 0 THEN 0 ELSE entries[i][2] + SumDt(entries, i - 1)

\* C6: every well-formed raw frame decodes to its content: the values in
\* entry order at the timestamps t0 + dt_1 + ... + dt_i.
C6_WellFormedDecodes ==
    (res # None /\ origin.how = "raw" /\ origin.flip = <<>>) =>
        res[1] = [samples |-> [i \in 1 .. Len(origin.entries) |->
                                   origin.entries[i][1]],
                  timestamps |-> [i \in 1 .. Len(origin.entries) |->
                                   origin.t0 + SumDt(origin.entries, i)]]

C1_PeaksApart ==
    \A i \in 1 .. Len(ghost.peaks) : \A j \in 1 .. Len(ghost.peaks) :
        i < j => ghost.peaks[j] - ghost.peaks[i] > RefractoryMs
\* C1: two peaks were accepted while a batch was processed
C1_Witness == Len(ghost.peaks) >= 2

\* C3 as stated: between poll ticks, every acceptance that computed a BPM has
\* been returned by its own consume_new_bpm call
C3_ConsumedOncePerDetection == poll.pc = "idle" => ghost.n_cons = ghost.n_det

(***************************************************************************)
(* Window tracker claim (checked under SpecWin)                            *)
(***************************************************************************)
\* C2 as stated: after every sample the two modes read the same local max,
\* local min and local mean
C2_SameWindowStats ==
    pair.fed # <<>> =>
        LET f == LocalStats(pair.fast)
            b == LocalStats(pair.slow)
        IN /\ f.max = b.max
           /\ f.min = b.min
           /\ f.sum * b.n = b.sum * f.n

(***************************************************************************)
(* Ring buffer claim (checked under SpecRing)                              *)
(***************************************************************************)
Min2(a, b) == IF a < b THEN a ELSE b
\* the most recent k of the appended (value, timestamp) pairs, in append order
Recent(hist, k) ==
    [samples |-> [i \in 1 .. k |-> hist[Len(hist) - k + i][1]],
     timestamps |-> [i \in 1 .. k |-> hist[Len(hist) - k + i][2]]]

\* C4: after m appends, last(n) is the most recent min(n, m, length) appended
\* pairs in append order, for every n > 0
C4_LastIsRecent ==
    \A n \in 1 .. STREAM_LENGTH + 2 :
        last(stream, n)
            = Recent(ghost.hist, Min2(n, Min2(Len(ghost.hist), stream.length)))
\* C4: the buffer has wrapped and the cursor is back at 0, where last(length)
\* is the whole backing storage
C4_Witness ==
    /\ Len(ghost.hist) > stream.length
    /\ stream.write_idx = 0
    /\ Len(last(stream, stream.length).samples) = stream.length

(***************************************************************************)
(* Server claims (checked under Spec)                                      *)
(***************************************************************************)
\* C8: a poll tick that ends without samples leaves the DataStream, the
\* session t0 and last_meta as they were, emits nothing, takes no lock and
\* leaves the poll thread ready for the next tick
C8_EmptyTickChangesNothing ==
    [][ghost'.fails # ghost.fails =>
          /\ stream' = stream
          /\ server'.t0 = server.t0
          /\ server'.last_meta = server.last_meta
          /\ outbox' = None
          /\ lock' = lock
          /\ poll' = IdlePoll]_vars
\* C8: a tick failed after batches had been stored and announced
C8_Witness ==
    /\ ghost.fails > 0
    /\ server.status = "RPC error"
    /\ stream.filled > 0
    /\ server.last_meta # None
    /\ server.t0 # None

\* C9: a full snapshot is the last PLOT_WINDOW samples of the finished
\* batches of the current stream, with the threshold left by the last of
\* them, and the last_meta read with it describes that last batch
C9_SnapshotSeesWholeBatches ==
    (reply # None /\ reply[1].kind \in {"connect", "request_status"}) =>
        LET k == Min2(PLOT_WINDOW, Min2(ghost.done, STREAM_LENGTH))
            want == Recent(SubSeq(ghost.hist, 1, ghost.done), k)
            payload == reply[1].payload
            meta == reply[1].meta
        IN /\ (k = 0) = (payload = None)
           /\ payload # None =>
                 /\ payload[1].y = want.samples
                 /\ Len(payload[1].t) = k
                 /\ \A i \in 1 .. k :
                       payload[1].t[i] + payload[1].t0 = want.timestamps[i]
                 /\ payload[1].threshold = ghost.thr_done
           /\ reply[1].kind = "connect" =>
                 /\ (meta = None) = (ghost.done = 0)
                 /\ meta # None => meta[1].last_count = ghost.last_len
\* C9: a client connected while the poll thread held a decoded frame, and
\* got a full window and the meta of the last batch
C9_Witness ==
    /\ reply # None
    /\ reply[1].kind = "connect"
    /\ reply[1].payload # None
    /\ Len(reply[1].payload[1].y) = PLOT_WINDOW
    /\ reply[1].meta # None
    /\ poll.pc = "got"

\* C10: right after clear_buffer, and until the next batch, the stream is a
\* freshly constructed one (empty ring, fresh filter, tracker, smoother and
\* detector state) and the session t0 is unset; no batch is under way
C10_ResetIsWhole ==
    /\ (ghost.hist = <<>> /\ poll.pc # "loop") =>
          /\ stream = NewDataStream(STREAM_LENGTH, ADAPTIVE_MEAN_FAST)
          /\ \A n \in 1 .. STREAM_LENGTH : last(stream, n) = EmptyFrame
    /\ (reply # None /\ reply[1].kind = "clear_buffer") =>
          /\ ghost.hist = <<>>
          /\ poll.pc # "loop"
          /\ lock = "free"
          /\ server.t0 = None
          /\ stream.filled = 0
\* C10: clear_buffer has just run on a stream that had processed batches
C10_Witness ==
    /\ reply # None
    /\ reply[1].kind = "clear_buffer"
    /\ ghost.total >= 2
    /\ poll.pc = "idle"

(***************************************************************************)
(* Detector behaviour (checked under SpecStream)                           *)
(***************************************************************************)
\* C11: the first accepted peak raises no BPM event; every later accepted
\* peak raises newBPM with BPM the integer nearest to 60000 / RR, RR being
\* the distance between the two most recent accepted peaks (more than 250 ms)
C11_BpmFromLastTwoPeaks ==
    [][Len(ghost'.peaks) > Len(ghost.peaks) =>
          LET n == Len(ghost'.peaks)
          IN IF n = 1
             THEN /\ ~stream'.newBPM
                  /\ stream'.BPM = stream.BPM
                  /\ stream'.BPM = 0
             ELSE LET rr == ghost'.peaks[n] - ghost'.peaks[n - 1]
                  IN /\ rr > RefractoryMs
                     /\ stream'.newBPM
                     /\ 2 * Abs(stream'.BPM * rr - 60000) <= rr
                     /\ stream'.last_r_peak_time = ghost'.peaks[n]
                     /\ stream'.prev_r_peak_time = ghost'.peaks[n - 1]]_vars
\* C11: a train of three accepted peaks, the second and third each with a BPM
C11_Witness ==
    /\ Len(ghost.peaks) >= 3
    /\ ghost.n_det >= 2
    /\ stream.BPM > 0

(***************************************************************************)
(* Stage toggling (checked under SpecToggle)                               *)
(***************************************************************************)
\* the state of the window tracker, the smoother and the beat detector
AdaptiveState(ds) ==
    <<ds.buffer, ds.buffer_index, ds.sum_val, ds.filter_disable,
      ds.inhibit_counter, ds.max_window, ds.max_window_max, ds.max_window_min,
      ds.max_window_sum, ds.max_buffer, ds.max_index, ds.peak_polarity,
      ds.last_r_polarity, ds.last_r_peak_time, ds.prev_r_peak_time, ds.BPM,
      ds.newBPM, ds.dynamic_threshold, ds.last_bpm>>
\* the enable flags
StageFlags(ds) == <<ds.hp_enabled, ds.no_enabled, ds.tp_enabled, ds.am_enabled>>
\* everything of a stream but its enable flags
BesidesFlags(ds) ==
    [k \in DOMAIN ds \ {"hp_enabled", "no_enabled", "tp_enabled", "am_enabled"}
        |-> ds[k]]
\* the batch after the enabled stages only, in the order notch, lowpass,
\* highpass, each started from its state in ds
EnabledStagesOnly(ds, samples) ==
    LET x0 == [i \in 1 .. Len(samples) |-> samples[i] * Scale]
        x1 == IF ds.no_enabled
              THEN IIRFilter_filter(no_coef, ds.no_state, x0).y ELSE x0
        x2 == IF ds.tp_enabled
              THEN IIRFilter_filter(tp_coef, ds.tp_state, x1).y ELSE x1
        x3 == IF ds.hp_enabled
              THEN IIRFilter_filter(hp_coef, ds.hp_state, x2).y ELSE x2
    IN [i \in 1 .. Len(x3) |-> IF Abs(x3[i]) * 1000 < Scale THEN 0 ELSE x3[i]]

\* C12: add_samples leaves the state vector of a disabled filter stage as it
\* was and passes that stage's input through; with the adaptive-mean stage
\* disabled it leaves tracker, smoother and detector as they were and appends
\* the filtered samples themselves; set_filter_enabled changes only the
\* flags it is given
C12_DisabledStagesAreInert ==
    [][/\ ghost'.op = "add" =>
             /\ StageFlags(stream') = StageFlags(stream)
             /\ ~stream.hp_enabled => stream'.hp_state = stream.hp_state
             /\ ~stream.no_enabled => stream'.no_state = stream.no_state
             /\ ~stream.tp_enabled => stream'.tp_state = stream.tp_state
             /\ ~stream.am_enabled =>
                   /\ AdaptiveState(stream') = AdaptiveState(stream)
                   /\ LET n == Len(ghost'.samples)
                          want == EnabledStagesOnly(stream, ghost'.samples)
                      IN /\ last(stream', n).samples
                               = [i \in 1 .. n |-> <<want[i], 1>>]
                         /\ last(stream', n).timestamps = ghost'.timestamps
       /\ ghost'.op = "set" =>
             /\ BesidesFlags(stream') = BesidesFlags(stream)
             /\ \A k \in {"hp", "no", "tp", "am"} :
                   LET f == IF k = "hp" THEN "hp_enabled"
                            ELSE IF k = "no" THEN "no_enabled"
                            ELSE IF k = "tp" THEN "tp_enabled" ELSE "am_enabled"
                   IN stream'[f] = IF k \in DOMAIN ghost'.flags
                                   THEN ghost'.flags[k] ELSE stream[f]]_vars
\* C12: a batch was added with the lowpass and the adaptive-mean stage
\* disabled, after an earlier batch had moved their state
C12_Witness ==
    /\ ghost.op = "add"
    /\ ~stream.tp_enabled
    /\ ~stream.am_enabled
    /\ stream.filled > Len(ghost.samples)

(***************************************************************************)
(* BPM events (checked under SpecBpm)                                      *)
(***************************************************************************)
\* C13: consume_new_bpm returns a pair exactly when a BPM-producing peak was
\* accepted since the previous call, with the polarity recorded at that
\* peak; a call that follows a call that returned a pair returns None
C13_EventSemantics ==
    [][ghost'.op = "consume" =>
          /\ (ghost'.ret # None) = (ghost.pend # None)
          /\ ghost'.ret # None =>
                /\ ghost'.ret[1][2] = ghost.pend[1]
                /\ ghost'.ret[1][1] = stream.BPM
          /\ (ghost.op = "consume" /\ ghost.ret # None) => ghost'.ret = None]_vars
\* C13: a pair was returned whose polarity is that of the accepted peak while
\* the samples after the peak have the other polarity
C13_Witness ==
    /\ ghost.op = "consume"
    /\ ghost.ret # None
    /\ ghost.ret[1][2] # stream.peak_polarity

(***************************************************************************)
(* Delta updates (checked under SpecDelta)                                 *)
(***************************************************************************)
Clamp255(d) == IF d < 0 THEN 0 ELSE IF d > 255 THEN 255 ELSE d

\* C14: the ecg_delta message sent after a batch carries the values appended
\* for that batch, in order and as many as the batch had samples; its t0 is
\* the first sample's timestamp, its first dt is 0 and every other dt is the
\* difference to the previous timestamp clamped into 0..255
C14_DeltaIsTheBatch ==
    outbox # None =>
        LET d == outbox[1][2].data
            n == ghost.last_len
            want == Recent(ghost.hist, n)
        IN /\ outbox[1][2].type = "ecg_delta"
           /\ n > 0
           /\ d.y = want.samples
           /\ Len(d.dt) = n
           /\ d.t0 = want.timestamps[1]
           /\ d.dt[1] = 0
           /\ \A i \in 2 .. n :
                 d.dt[i] = Clamp255(want.timestamps[i] - want.timestamps[i - 1])
\* C14: a delta was sent for a second batch, with a step clamped to 255 ...
C14_Witness ==
    /\ outbox # None
    /\ Len(ghost.hist) > ghost.last_len
    /\ ghost.last_len = 2
    /\ outbox[1][2].data.dt[2] = 255
    /\ ghost.hist[Len(ghost.hist)][2] - ghost.hist[Len(ghost.hist) - 1][2] > 255

\* C15 as stated: after a processed sample the detector is never in
\* REFRACTORY (filter_disable) with the countdown at zero
C15_NoRefractoryAtZero == ~(stream.filter_disable /\ stream.inhibit_counter = 0)

\* C16: with the adaptive-mean stage enabled, the value appended for a sample
\* is the filtered sample itself when the detector is in REFRACTORY after the
\* sample's state update, and otherwise sum / window_size of the smoother
\* after the sample was written into the next slot and the cursor advanced
\* by one modulo window_size
C16_OutputFollowsDetectorState ==
    [][(Len(ghost'.hist) > Len(ghost.hist) /\ stream.am_enabled) =>
          LET sample == poll.filtered[poll.i]
              out == ghost'.hist[Len(ghost'.hist)][1]
              slot == stream.buffer_index + 1
          IN /\ stream'.samples[stream.write_idx + 1] = out
             /\ IF stream'.filter_disable
                THEN out = <<sample, 1>>
                ELSE /\ out = <<stream'.sum_val, window_size>>
                     /\ stream'.sum_val
                            = stream.sum_val - stream.buffer[slot] + sample
                     /\ stream'.buffer = [stream.buffer EXCEPT ![slot] = sample]
                     /\ stream'.buffer_index
                            = (stream.buffer_index + 1) % window_size]_vars
\* C16: both kinds of value were appended: a raw one at a peak and then a
\* smoothed one that differs from its sample
C16_Witness ==
    /\ Len(ghost.hist) >= 3
    /\ Len(ghost.peaks) >= 1
    /\ ~stream.filter_disable
    /\ poll.pc = "loop"
    /\ poll.i > 1
    /\ ghost.hist[Len(ghost.hist)][1] = <<stream.sum_val, window_size>>
    /\ stream.sum_val # window_size * poll.filtered[poll.i - 1]

\* the state of the moving-average smoother
SmootherState(ds) == <<ds.buffer, ds.buffer_index, ds.sum_val>>

C19_PeakTimeNotAhead ==
    ghost.hist # <<>> =>
        stream.last_r_peak_time <= ghost.hist[Len(ghost.hist)][2]

(***************************************************************************)
(* Range of the BPM (checked under SpecStream)                             *)
(***************************************************************************)
\* C20: every BPM the detector computes lies in 0..239, because the RR interval
\* of a BPM-producing acceptance is at least 251 ms
MaxRR == 400
C20_BpmRange ==
    /\ [](stream.BPM \in 0 .. 239)
    /\ [](\A rr \in RefractoryMs + 1 .. MaxRR : RoundDiv(60000, rr) \in 0 .. 239)
    /\ [][stream'.prev_r_peak_time # stream.prev_r_peak_time =>
             /\ stream'.last_r_peak_time - stream'.prev_r_peak_time >= 251
             /\ stream'.BPM \in 0 .. 239]_vars
\* C20: a BPM has been computed from two accepted peaks
C20_Witness ==
    /\ ghost.n_det >= 1
    /\ stream.prev_r_peak_time > 0
    /\ stream.BPM > 0

(***************************************************************************)
(* Metadata after a reset (checked under Spec)                             *)
(***************************************************************************)
\* C21: after clear_buffer, an ecg_meta message built from a batch of the new
\* stream carries no bpm and no polarity as long as the new stream has not
\* computed a BPM (no second accepted peak yet)
C21_NoStaleBeatAfterReset ==
    (/\ outbox # None
     /\ ghost.clears >= 1
     /\ ghost.hist # <<>>
     /\ stream.prev_r_peak_time = 0) =>
        \A i \in 1 .. Len(outbox[1]) :
            outbox[1][i].type = "ecg_meta" =>
                /\ outbox[1][i].data.bpm = None
                /\ outbox[1][i].data.polarity = None
====
